---- MODULE Spec2Model ----
(***************************************************************************)
(* Bot-instance lifecycle of the TG auto-reaction bot server               *)
(* (src/unnamed/part_001, the Supabase-backed server with reactions and    *)
(* notifications; src/server.js is the earlier revision of the same file). *)
(*                                                                         *)
(* Node runs every handler to its next `await`; one action of this module  *)
(* is one such run: the store operation or adapter call whose result the   *)
(* handler was awaiting takes effect, and the handler continues to its     *)
(* next await or to its response.                                          *)
(***************************************************************************)
EXTENDS Bags, FiniteSets, Integers, Sequences, TLC

VARIABLES
    bots,           \* table bots: id -> row
    nextId,         \* the serial of bots.id
    bot_users,      \* table bot_users: set of rows, unique (bot_id, telegram_id)
    broadcasts,     \* table broadcasts: sequence of rows, in insertion order
    notifications,  \* table notifications: sequence of rows
    botInstances,   \* the Map botId -> { bot, token }
    adapters,       \* the Telegraf objects in use, by handle
    tasks,          \* bag of suspended handlers (each waits at an await)
    booted,         \* loadAndStartEnabledBots got its select result
    hist,           \* per bot id: was stopBot, then startBot, invoked on it
    served,         \* requests admitted past validation and authorization
    ev              \* what the last step answered or completed

vars == <<bots, nextId, bot_users, broadcasts, notifications, botInstances,
          adapters, tasks, booted, hist, served, ev>>

----------------------------------------------------------------------------
(* Bounds of the model *)

MaxBots == 1          \* rows of bots while the server takes requests
MaxRequests == 2      \* create and toggle requests admitted in a run
MaxStored == 2        \* rows of bots the bootstrap may find
MaxUsers == 2         \* subscribers of a bot
MaxBroadcasts == 1    \* broadcasts admitted in a run

(* Process configuration and the values requests are drawn from *)

ADMIN_PASSWORD == "change_me"

Tokens == {"t1"}
Owners == {"alice", "bob"}
Messages == {"", "hello", "bye"}
DefaultEmoji == "heart"

----------------------------------------------------------------------------
(* Records *)

NoRow ==
    [id |-> 0, token |-> "", owner |-> "", enabled |-> FALSE,
     force_join_channel |-> "", notify_new_user |-> FALSE,
     reaction_enabled |-> FALSE, reaction_emoji |-> ""]

\* ctx.from of a Telegram update
NoUser == [id |-> 0, username |-> "", first_name |-> "", last_name |-> ""]

NoTask ==
    [kind |-> "none", id |-> 0, enable |-> FALSE, row |-> NoRow, bot |-> 0,
     message |-> "", users |-> <<>>, todo |-> <<>>, log |-> <<>>, sent |-> 0,
     fails |-> 0, payload |-> <<>>, from |-> NoUser, msg |-> 0, took |-> FALSE]

NoEv ==
    [op |-> "none", id |-> 0, status |-> 0, error |-> "", enable |-> FALSE,
     failed |-> FALSE, attempted |-> 0, sent |-> 0, fails |-> 0, log |-> <<>>,
     users |-> <<>>, text |-> "", reply_to |-> 0]

BagAdd(B, e) == B (+) SetToBag({e})
BagDel(B, e) == B (-) SetToBag({e})

(* The Map and the tables as functions *)

Put(f, k, v) == [j \in DOMAIN f \cup {k} |-> IF j = k THEN v ELSE f[j]]
Drop(f, k) == [j \in DOMAIN f \ {k} |-> f[j]]
EmptyMap == [j \in {} |-> 0]

(* hist[id]: "stop" when the last call on id was stopBot, "stop_start" when
   the last two were stopBot then startBot; a failed launch of id clears it *)
HistAfter(h, op) ==
    IF op = "stop" THEN "stop"
    ELSE IF op = "start" /\ h = "stop" THEN "stop_start"
    ELSE "none"

HistOf(h, i) == IF i \in DOMAIN h THEN h[i] ELSE "none"

PushAll(h, ids, op) ==
    LET g == [i \in DOMAIN h \cup ids |->
                 IF i \in ids THEN HistAfter(HistOf(h, i), op) ELSE h[i]]
    IN  [i \in {j \in DOMAIN g : g[j] # "none"} |-> g[i]]

----------------------------------------------------------------------------
(* The Telegraf objects.  An object is tracked while it is launching,
   polling, being stopped, or referenced by the Map or by a suspended
   stopBot; a handle is a free small number. *)

Handle(ads) == CHOOSE h \in 1..(Cardinality(DOMAIN ads) + 1) :
                  /\ h \notin DOMAIN ads
                  /\ \A g \in 1..(h - 1) : g \in DOMAIN ads

Live(ad) == ad.state \in {"polling", "stopping"}

Collect(ads, reg, tsk) ==
    LET keep == {h \in DOMAIN ads :
                   \/ ads[h].state \in {"launching", "polling", "stopping"}
                   \/ \E i \in DOMAIN reg : reg[i].bot = h
                   \/ \E t \in BagToSet(tsk) : t.kind = "stop" /\ t.bot = h}
    IN  [h \in keep |-> ads[h]]

----------------------------------------------------------------------------
(* startBot(botRow), up to `await bot.launch()` *)

\* variant: startBot without the `botInstances.has(botId)` return of line 27
StartBotProceeds_NoHas(reg, botRow) == botRow.token # ""

\* lines 25-27: a row without token, or an id already in the Map, returns
StartBotProceeds(reg, botRow) ==
    /\ botRow.token # ""
    /\ botRow.id \notin DOMAIN reg

\* lines 29-93: construct the Telegraf object, attach the handlers (they
\* close over botRow), call launch; `awaited` says a handler awaits startBot
startBot(ads, reg, botRow, awaited) ==
    IF StartBotProceeds(reg, botRow)
    THEN Put(ads, Handle(ads), [row |-> botRow, state |-> "launching", awaited |-> awaited])
    ELSE ads

\* the for loop of loadAndStartEnabledBots over rows (no await in it)
RECURSIVE StartEach(_, _, _)
StartEach(ads, reg, rows) ==
    IF rows = <<>> THEN ads
    ELSE StartEach(startBot(ads, reg, Head(rows), FALSE), reg, Tail(rows))

\* rows of a table in ascending id order
RECURSIVE RowsFrom(_, _, _)
RowsFrom(tbl, ids, i) ==
    IF ids = {} THEN <<>>
    ELSE IF i \in ids THEN <<tbl[i]>> \o RowsFrom(tbl, ids \ {i}, i + 1)
    ELSE RowsFrom(tbl, ids, i + 1)

\* variant: the bootstrap select without its eq('enabled', true)
EnabledRows_All(tbl) == RowsFrom(tbl, DOMAIN tbl, 0)

\* select('*').eq('enabled', true)
EnabledRows(tbl) == RowsFrom(tbl, {i \in DOMAIN tbl : tbl[i].enabled}, 0)

SeqIds(rows) == {rows[k].id : k \in DOMAIN rows}

\* a row as the create route stores it (lines 129-138), with its serial id
NewRow(i, token, owner, fj, notify, re, emoji) ==
    [id |-> i, token |-> token, owner |-> owner, enabled |-> TRUE,
     force_join_channel |-> fj, notify_new_user |-> notify,
     reaction_enabled |-> re, reaction_emoji |-> IF emoji = "" THEN DefaultEmoji ELSE emoji]

----------------------------------------------------------------------------
\* the process starts on a store that earlier runs of the server filled:
\* rows 1..n, each enabled or not; nothing is running and the bootstrap
\* select of loadAndStartEnabledBots is in flight
Init ==
    /\ \E n \in 0..MaxBots : \E en \in [1..n -> BOOLEAN], tk \in [1..n -> Tokens] :
         /\ nextId = n + 1
         /\ bots = [i \in 1..n |->
                      [NewRow(i, tk[i], "alice", "", FALSE, TRUE, "") EXCEPT !.enabled = en[i]]]
    /\ bot_users = {}
    /\ broadcasts = <<>>
    /\ notifications = <<>>
    /\ botInstances = EmptyMap
    /\ adapters = EmptyMap
    /\ tasks = EmptyBag
    /\ booted = FALSE
    /\ hist = EmptyMap
    /\ served = 0
    /\ ev = NoEv

----------------------------------------------------------------------------
(* loadAndStartEnabledBots: the continuation after its select *)

Startup(dbOk) ==
    /\ ~booted
    /\ booted' = TRUE
    /\ IF dbOk
       THEN LET data == EnabledRows(bots)
                ads == StartEach(adapters, botInstances, data)
            IN  /\ adapters' = ads
                /\ hist' = PushAll(hist, SeqIds(data), "start")
                /\ ev' = [NoEv EXCEPT !.op = "startup"]
       ELSE /\ ev' = [NoEv EXCEPT !.op = "startup", !.error = "load"]
            /\ UNCHANGED <<adapters, hist>>
    /\ UNCHANGED <<bots, nextId, bot_users, broadcasts, notifications, botInstances, tasks, served>>

----------------------------------------------------------------------------
(* startBot after `await bot.launch()`: lines 92-98; when the create route  *)
(* awaits this startBot, its res.json follows in the same run               *)

\* variant: startBot without line 94
LaunchSet_Never(reg, botRow, a, ok) == reg

\* variant: the Map entry set before the launch is known to have succeeded
LaunchSet_Always(reg, botRow, a, ok) ==
    Put(reg, botRow.id, [bot |-> a, token |-> botRow.token])

\* line 94, or the catch of line 96
LaunchSet(reg, botRow, a, ok) ==
    IF ok THEN Put(reg, botRow.id, [bot |-> a, token |-> botRow.token]) ELSE reg

LaunchDone(a, ok) ==
    /\ a \in DOMAIN adapters
    /\ adapters[a].state = "launching"
    /\ LET botRow == adapters[a].row IN
       /\ botInstances' = LaunchSet(botInstances, botRow, a, ok)
       /\ adapters' = Collect([adapters EXCEPT ![a].state = IF ok THEN "polling" ELSE "failed"],
                              botInstances', tasks)
       /\ hist' = IF ok THEN hist ELSE PushAll(hist, {botRow.id}, "fail")
       /\ ev' = IF adapters[a].awaited
                THEN [NoEv EXCEPT !.op = "create", !.id = botRow.id, !.status = 200, !.failed = ~ok]
                ELSE [NoEv EXCEPT !.op = "launch", !.id = botRow.id, !.failed = ~ok]
    /\ UNCHANGED <<bots, nextId, bot_users, broadcasts, notifications, tasks, booted, served>>

----------------------------------------------------------------------------
(* stopBot(botId) *)

\* lines 102-103
StopBotProceeds(reg, botId) == botId \in DOMAIN reg

\* lines 102-105, up to `await inst.bot.stop()`: the adapter is told to stop
stopBotAds(ads, reg, botId) ==
    IF StopBotProceeds(reg, botId)
    THEN [ads EXCEPT ![reg[botId].bot].state = IF @ = "polling" THEN "stopping" ELSE @]
    ELSE ads

stopBotTasks(tsk, reg, botId) ==
    IF StopBotProceeds(reg, botId)
    THEN BagAdd(tsk, [NoTask EXCEPT !.kind = "stop", !.id = botId, !.bot = reg[botId].bot])
    ELSE tsk

\* variant: the Map cleared instead of the one delete
StopDelete_Clear(reg, botId, threw) == [j \in {} |-> reg[j]]

\* variant: the delete inside the try, skipped when stop() throws
StopDelete_InTry(reg, botId, threw) == IF threw THEN reg ELSE Drop(reg, botId)

\* lines 106-107: whatever stop() did, the entry of botId is deleted
StopDelete(reg, botId, threw) == Drop(reg, botId)

\* the adapter after stop() returned, or threw (then it did not shut down,
\* unless an earlier stop already had)
StoppedState(old, threw) ==
    IF threw /\ old # "stopped" THEN "stop_failed" ELSE "stopped"

StopDone(t, threw) ==
    /\ t \in BagToSet(tasks)
    /\ t.kind = "stop"
    /\ tasks' = BagDel(tasks, t)
    /\ botInstances' = StopDelete(botInstances, t.id, threw)
    /\ adapters' = Collect([adapters EXCEPT ![t.bot].state = StoppedState(@, threw)],
                           botInstances', tasks')
    /\ ev' = [NoEv EXCEPT !.op = "stop", !.id = t.id, !.failed = threw]
    /\ UNCHANGED <<bots, nextId, bot_users, broadcasts, notifications, booted, hist, served>>

----------------------------------------------------------------------------
(* POST /api/bots: lines 125-145 *)

Create(token, owner, fj, notify, re, emoji, dbOk) ==
    /\ UNCHANGED <<bot_users, broadcasts, notifications, botInstances, tasks, booted>>
    /\ IF token = "" \/ owner = ""
       THEN /\ ev' = [NoEv EXCEPT !.op = "create", !.status = 400, !.error = "token and owner required"]
            /\ UNCHANGED <<bots, nextId, adapters, hist, served>>
       ELSE IF ~dbOk
       THEN /\ ev' = [NoEv EXCEPT !.op = "create", !.status = 500, !.error = "store"]
            /\ UNCHANGED <<bots, nextId, adapters, hist, served>>
       ELSE LET data == NewRow(nextId, token, owner, fj, notify, re, emoji) IN
            /\ nextId <= MaxBots
            /\ bots' = Put(bots, nextId, data)
            /\ nextId' = nextId + 1
            /\ served < MaxRequests
            /\ served' = served + 1
            /\ adapters' = startBot(adapters, botInstances, data, TRUE)
            /\ hist' = PushAll(hist, {data.id}, "start")
            /\ ev' = IF StartBotProceeds(botInstances, data)
                     THEN [NoEv EXCEPT !.op = "create_started", !.id = data.id]
                     ELSE [NoEv EXCEPT !.op = "create", !.id = data.id, !.status = 200]

----------------------------------------------------------------------------
(* POST /api/bots/:id/toggle: lines 175-189 *)

\* variant: the check without the admin password
Authorized_OwnerOnly(admin_password, owner, botRow) == owner = botRow.owner

\* line 180 (and 166, 198): admin password or the stored owner
Authorized(admin_password, owner, botRow) ==
    admin_password = ADMIN_PASSWORD \/ owner = botRow.owner

\* lines 176-182: the select's result, the authorization, the update issued
ToggleSelect(id, enable, admin_password, owner, dbOk) ==
    /\ UNCHANGED <<bots, nextId, bot_users, broadcasts, notifications, botInstances,
                   adapters, booted, hist>>
    /\ IF ~dbOk \/ id \notin DOMAIN bots
       THEN /\ ev' = [NoEv EXCEPT !.op = "toggle", !.status = 404, !.error = "bot not found"]
            /\ UNCHANGED <<tasks, served>>
       ELSE IF ~Authorized(admin_password, owner, bots[id])
       THEN /\ ev' = [NoEv EXCEPT !.op = "toggle", !.status = 403, !.error = "forbidden"]
            /\ UNCHANGED <<tasks, served>>
       ELSE /\ served < MaxRequests
            /\ served' = served + 1
            /\ tasks' = BagAdd(tasks, [NoTask EXCEPT !.kind = "toggle", !.id = id,
                                                     !.enable = enable, !.row = bots[id]])
            /\ ev' = [NoEv EXCEPT !.op = "toggle_update"]

\* lines 182-188: the update's result, startBot or stopBot called (not
\* awaited), then the answer
ToggleUpdate(t, dbOk) ==
    /\ t \in BagToSet(tasks)
    /\ t.kind = "toggle"
    /\ UNCHANGED <<nextId, bot_users, broadcasts, notifications, botInstances, booted, served>>
    /\ IF ~dbOk
       THEN /\ tasks' = BagDel(tasks, t)
            /\ ev' = [NoEv EXCEPT !.op = "toggle", !.status = 500, !.error = "store"]
            /\ UNCHANGED <<bots, adapters, hist>>
       ELSE /\ bots' = IF t.id \in DOMAIN bots
                       THEN [bots EXCEPT ![t.id].enabled = t.enable] ELSE bots
            /\ IF t.enable
               THEN /\ adapters' = startBot(adapters, botInstances,
                                            [t.row EXCEPT !.enabled = TRUE], FALSE)
                    /\ tasks' = BagDel(tasks, t)
                    /\ hist' = PushAll(hist, {t.id}, "start")
                    /\ ev' = [NoEv EXCEPT !.op = "toggle", !.id = t.id, !.status = 200,
                                          !.enable = TRUE]
               ELSE /\ adapters' = stopBotAds(adapters, botInstances, t.id)
                    /\ tasks' = stopBotTasks(BagDel(tasks, t), botInstances, t.id)
                    /\ hist' = PushAll(hist, {t.id}, "stop")
                    /\ ev' = [NoEv EXCEPT !.op = "toggle", !.id = t.id, !.status = 200,
                                          !.enable = FALSE]

----------------------------------------------------------------------------
(* POST /api/bots/:id/settings (lines 158-172) and, in src/server.js,
   POST /api/bots/:id/force_join (lines 185-196) *)

\* update(payload): the columns named in the payload take its values
Merge(row, payload) ==
    [f \in DOMAIN row |-> IF f \in DOMAIN payload THEN payload[f] ELSE row[f]]

\* rows of the other tables that reference bots(id)
References(users, bcs, notes, id) ==
    \/ \E u \in users : u.bot_id = id
    \/ \E k \in DOMAIN bcs : bcs[k].bot_id = id
    \/ \E k \in DOMAIN notes : notes[k].bot_id = id

\* the schema's constraints on update bots set ... where id = id: the
\* primary key, and the foreign keys of the three other tables (declared
\* without `on update`, so a referenced id cannot be changed)
StoreTakes(tbl, users, bcs, notes, id, payload) ==
    LET new == Merge(tbl[id], payload) IN
    new.id = id \/ (new.id \notin DOMAIN tbl /\ ~References(users, bcs, notes, id))

\* the table after the update; a statement that matches no row changes nothing
RowUpdate(tbl, id, payload) ==
    IF id \notin DOMAIN tbl THEN tbl
    ELSE LET new == Merge(tbl[id], payload) IN
         IF new.id = id THEN [tbl EXCEPT ![id] = new]
         ELSE Put(Drop(tbl, id), new.id, new)

\* lines 159-168: validation, the row, the authorization, the update issued
SettingsSelect(id, given, payload, admin_password, owner, dbOk) ==
    /\ UNCHANGED <<bots, nextId, bot_users, broadcasts, notifications, botInstances,
                   adapters, booted, hist>>
    /\ IF ~given
       THEN /\ ev' = [NoEv EXCEPT !.op = "settings", !.status = 400, !.error = "payload required"]
            /\ UNCHANGED <<tasks, served>>
       ELSE IF ~dbOk \/ id \notin DOMAIN bots
       THEN /\ ev' = [NoEv EXCEPT !.op = "settings", !.status = 404, !.error = "bot not found"]
            /\ UNCHANGED <<tasks, served>>
       ELSE IF ~Authorized(admin_password, owner, bots[id])
       THEN /\ ev' = [NoEv EXCEPT !.op = "settings", !.status = 403, !.error = "forbidden"]
            /\ UNCHANGED <<tasks, served>>
       ELSE /\ served < MaxRequests
            /\ served' = served + 1
            /\ tasks' = BagAdd(tasks, [NoTask EXCEPT !.kind = "settings", !.id = id,
                                                     !.payload = payload])
            /\ ev' = [NoEv EXCEPT !.op = "settings_update"]

\* src/server.js lines 186-193: the same, the payload being the channel
ForceJoinSelect(id, channel, admin_password, owner, dbOk) ==
    /\ UNCHANGED <<bots, nextId, bot_users, broadcasts, notifications, botInstances,
                   adapters, booted, hist>>
    /\ IF ~dbOk \/ id \notin DOMAIN bots
       THEN /\ ev' = [NoEv EXCEPT !.op = "force_join", !.status = 404, !.error = "bot not found"]
            /\ UNCHANGED <<tasks, served>>
       ELSE IF ~Authorized(admin_password, owner, bots[id])
       THEN /\ ev' = [NoEv EXCEPT !.op = "force_join", !.status = 403, !.error = "forbidden"]
            /\ UNCHANGED <<tasks, served>>
       ELSE /\ served < MaxRequests
            /\ served' = served + 1
            /\ tasks' = BagAdd(tasks, [NoTask EXCEPT !.kind = "force_join", !.id = id,
                                                     !.payload = [force_join_channel |-> channel]])
            /\ ev' = [NoEv EXCEPT !.op = "force_join_update"]

\* variant: the settings route writing a new token into the Map entry
InstancesAfterUpdate_Swap(reg, id, payload) ==
    IF id \in DOMAIN reg /\ "token" \in DOMAIN payload
    THEN [reg EXCEPT ![id].token = payload.token] ELSE reg

\* lines 158-172: the Map after the settings route ran - the route names
\* neither botInstances nor startBot nor stopBot
InstancesAfterUpdate(reg, id, payload) == reg

\* lines 168-171 (src/server.js 193-195): the update's result, the answer
UpdateDone(t, dbOk) ==
    /\ t \in BagToSet(tasks)
    /\ t.kind \in {"settings", "force_join"}
    /\ tasks' = BagDel(tasks, t)
    /\ botInstances' = InstancesAfterUpdate(botInstances, t.id, t.payload)
    /\ UNCHANGED <<nextId, bot_users, broadcasts, notifications,
                   adapters, booted, hist, served>>
    /\ IF dbOk /\ (t.id \in DOMAIN bots =>
                      StoreTakes(bots, bot_users, broadcasts, notifications, t.id, t.payload))
       THEN /\ bots' = RowUpdate(bots, t.id, t.payload)
            /\ ev' = [NoEv EXCEPT !.op = t.kind, !.id = t.id, !.status = 200]
       ELSE /\ UNCHANGED bots
            /\ ev' = [NoEv EXCEPT !.op = t.kind, !.id = t.id, !.status = 500, !.error = "store"]

----------------------------------------------------------------------------
(* POST /api/admin/toggle_all: lines 238-249 *)

\* variant: the route without its password test
AdminOnly_Open(admin_password) == TRUE

\* line 240
AdminOnly(admin_password) == admin_password = ADMIN_PASSWORD

\* lines 239-243: the password, the select of all rows (taken here in
\* ascending id order), the first update issued
ToggleAllSelect(enable, admin_password, dbOk) ==
    /\ UNCHANGED <<bots, nextId, bot_users, broadcasts, notifications, botInstances,
                   adapters, booted, hist>>
    /\ IF ~AdminOnly(admin_password)
       THEN /\ ev' = [NoEv EXCEPT !.op = "toggle_all", !.status = 403, !.error = "forbidden"]
            /\ UNCHANGED <<tasks, served>>
       ELSE IF ~dbOk
       THEN /\ ev' = [NoEv EXCEPT !.op = "toggle_all", !.status = 500, !.error = "store"]
            /\ UNCHANGED <<tasks, served>>
       ELSE LET rows == RowsFrom(bots, DOMAIN bots, 0) IN
            /\ served < MaxRequests
            /\ served' = served + 1
            /\ IF rows = <<>>
               THEN /\ tasks' = tasks
                    /\ ev' = [NoEv EXCEPT !.op = "toggle_all", !.status = 200]
               ELSE /\ tasks' = BagAdd(tasks, [NoTask EXCEPT !.kind = "toggle_all",
                                                   !.enable = enable, !.todo = rows,
                                                   !.sent = Len(rows)])
                    /\ ev' = [NoEv EXCEPT !.op = "toggle_all_update"]

\* lines 244-248: the update of one row was awaited (its result is not
\* looked at), startBot or stopBot is called for it (not awaited); then the
\* next row's update is issued, or the answer is sent
ToggleAllUpdate(t, dbOk) ==
    /\ t \in BagToSet(tasks)
    /\ t.kind = "toggle_all"
    /\ UNCHANGED <<nextId, bot_users, broadcasts, notifications, botInstances, booted, served>>
    /\ LET b == Head(t.todo)
           rest == BagDel(tasks, t)
           next == IF Tail(t.todo) = <<>> THEN rest
                   ELSE BagAdd(rest, [t EXCEPT !.todo = Tail(t.todo)])
       IN  /\ bots' = IF dbOk /\ b.id \in DOMAIN bots
                       THEN [bots EXCEPT ![b.id].enabled = t.enable] ELSE bots
           /\ IF t.enable
              THEN /\ adapters' = startBot(adapters, botInstances, b, FALSE)
                   /\ tasks' = next
                   /\ hist' = PushAll(hist, {b.id}, "start")
              ELSE /\ adapters' = stopBotAds(adapters, botInstances, b.id)
                   /\ tasks' = stopBotTasks(next, botInstances, b.id)
                   /\ hist' = PushAll(hist, {b.id}, "stop")
           /\ ev' = IF Tail(t.todo) = <<>>
                    THEN [NoEv EXCEPT !.op = "toggle_all", !.status = 200,
                                      !.enable = t.enable, !.attempted = t.sent]
                    ELSE [NoEv EXCEPT !.op = "toggle_all_update", !.id = b.id]

----------------------------------------------------------------------------
(* The lifecycle specification: requests that pass validation and
   authorization, on a store that answers *)

Credentials == {<<ADMIN_PASSWORD, "bob">>, <<"guess", "alice">>}

Next ==
    \/ Startup(TRUE)
    \/ \E a \in DOMAIN adapters, ok \in BOOLEAN : LaunchDone(a, ok)
    \/ \E t \in BagToSet(tasks), threw \in BOOLEAN : StopDone(t, threw)
    \/ \E token \in Tokens : Create(token, "alice", "", FALSE, TRUE, "", TRUE)
    \/ \E id \in DOMAIN bots, enable \in BOOLEAN, c \in Credentials :
         ToggleSelect(id, enable, c[1], c[2], TRUE)
    \/ \E t \in BagToSet(tasks) : ToggleUpdate(t, TRUE)

Spec == Init /\ [][Next]_vars

----------------------------------------------------------------------------
(* POST /api/bots/:id/broadcast: lines 192-215 *)

\* select('telegram_id').eq('bot_id', id): the store fixes no order
Subscribers(tbl, id) == {u.telegram_id : u \in {r \in tbl : r.bot_id = id}}

RECURSIVE Orders(_)
Orders(S) ==
    IF S = {} THEN {<<>>}
    ELSE UNION {{<<x>> \o o : o \in Orders(S \ {x})} : x \in S}

\* the number of broadcast handlers in flight
RECURSIVE Copies(_, _)
Copies(S, tsk) ==
    IF S = {} THEN 0
    ELSE LET t == CHOOSE x \in S : TRUE IN CopiesIn(t, tsk) + Copies(S \ {t}, tsk)

Broadcasting(tsk) ==
    Copies({t \in BagToSet(tsk) : t.kind \in {"bc_users", "bc_send", "bc_insert"}}, tsk)

\* variant: the route without the check of line 201
NotRunning_Never(reg, id) == FALSE

\* lines 200-201: botInstances.get(id) finds nothing
NotRunning(reg, id) == id \notin DOMAIN reg

\* line 200: botInstances.get(id), its adapter; 0 stands for undefined
InstBot(reg, id) == IF id \in DOMAIN reg THEN reg[id].bot ELSE 0

\* lines 193-203: validation, the row, the authorization, the instance,
\* then the select of the subscribers is issued
BroadcastSelect(id, message, admin_password, owner, dbOk) ==
    /\ UNCHANGED <<bots, nextId, bot_users, broadcasts, notifications, botInstances,
                   adapters, booted, hist, served>>
    /\ IF message = ""
       THEN /\ ev' = [NoEv EXCEPT !.op = "broadcast", !.status = 400, !.error = "message required"]
            /\ UNCHANGED tasks
       ELSE IF ~dbOk \/ id \notin DOMAIN bots
       THEN /\ ev' = [NoEv EXCEPT !.op = "broadcast", !.status = 404, !.error = "bot not found"]
            /\ UNCHANGED tasks
       ELSE IF ~Authorized(admin_password, owner, bots[id])
       THEN /\ ev' = [NoEv EXCEPT !.op = "broadcast", !.status = 403, !.error = "forbidden"]
            /\ UNCHANGED tasks
       ELSE IF NotRunning(botInstances, id)
       THEN /\ ev' = [NoEv EXCEPT !.op = "broadcast", !.id = id, !.status = 400,
                                  !.error = "bot is not running"]
            /\ UNCHANGED tasks
       ELSE /\ Len(broadcasts) + Broadcasting(tasks) < MaxBroadcasts
            /\ tasks' = BagAdd(tasks, [NoTask EXCEPT !.kind = "bc_users", !.id = id,
                                                     !.bot = InstBot(botInstances, id),
                                                     !.message = message])
            /\ ev' = [NoEv EXCEPT !.op = "broadcast_users"]

\* the task when the loop of lines 207-212 has `todo` left: the next send is
\* awaited, or after the last one the insert of line 213
Looping(t, todo) ==
    [t EXCEPT !.todo = todo, !.kind = IF todo = <<>> THEN "bc_insert" ELSE "bc_send"]

\* lines 203-209: the subscribers as the store listed them, the loop entered
BroadcastUsers(t, users, dbOk) ==
    /\ t \in BagToSet(tasks)
    /\ t.kind = "bc_users"
    /\ users \in Orders(Subscribers(bot_users, t.id))
    /\ UNCHANGED <<bots, nextId, bot_users, broadcasts, notifications, botInstances,
                   adapters, booted, hist, served>>
    /\ IF ~dbOk
       THEN /\ tasks' = BagDel(tasks, t)
            /\ ev' = [NoEv EXCEPT !.op = "broadcast", !.status = 500, !.error = "store"]
       ELSE /\ tasks' = BagAdd(BagDel(tasks, t), Looping([t EXCEPT !.users = users], users))
            /\ ev' = [NoEv EXCEPT !.op = "broadcast_send"]

\* variant: a failed send ends the loop
RestAfterSend_Abort(todo, ok) == IF ok THEN Tail(todo) ELSE <<>>

\* lines 207-212: the loop goes on to the next subscriber, sent or not
RestAfterSend(todo, ok) == Tail(todo)

\* lines 209-211: sent++ is skipped when sendMessage throws
SentAfterSend(sent, ok) == IF ok THEN sent + 1 ELSE sent

\* lines 209-212: one sendMessage returned or threw
BroadcastSend(t, ok) ==
    /\ t \in BagToSet(tasks)
    /\ t.kind = "bc_send"
    /\ UNCHANGED <<bots, nextId, bot_users, broadcasts, notifications, botInstances,
                   adapters, booted, hist, served>>
    /\ tasks' = BagAdd(BagDel(tasks, t),
                       Looping([t EXCEPT !.log = Append(@, Head(t.todo)),
                                         !.sent = SentAfterSend(@, ok),
                                         !.fails = IF ok THEN @ ELSE @ + 1],
                               RestAfterSend(t.todo, ok)))
    /\ ev' = [NoEv EXCEPT !.op = "broadcast_send"]

\* lines 213-214: the insert's result is not looked at; the answer
BroadcastInsert(t, dbOk) ==
    /\ t \in BagToSet(tasks)
    /\ t.kind = "bc_insert"
    /\ UNCHANGED <<bots, nextId, bot_users, notifications, botInstances,
                   adapters, booted, hist, served>>
    /\ tasks' = BagDel(tasks, t)
    /\ broadcasts' = IF dbOk THEN Append(broadcasts, [bot_id |-> t.id, message |-> t.message])
                     ELSE broadcasts
    /\ ev' = [NoEv EXCEPT !.op = "broadcast", !.id = t.id, !.status = 200,
                          !.attempted = Len(t.users), !.sent = t.sent,
                          !.fails = t.fails, !.log = t.log, !.users = t.users,
                          !.failed = ~dbOk]

----------------------------------------------------------------------------
(* The bootstrap alone: the process starts on any store content, rows with
   either flag, with or without token (the settings route writes any
   payload), and only loadAndStartEnabledBots and its launches run *)

InitBoot ==
    /\ \E n \in 0..MaxStored :
         \E en \in [1..n -> BOOLEAN], tk \in [1..n -> Tokens \cup {""}], ow \in [1..n -> Owners] :
             /\ nextId = n + 1
             /\ bots = [i \in 1..n |->
                          [NewRow(i, tk[i], ow[i], "", FALSE, TRUE, "") EXCEPT !.enabled = en[i]]]
    /\ bot_users = {}
    /\ broadcasts = <<>>
    /\ notifications = <<>>
    /\ botInstances = EmptyMap
    /\ adapters = EmptyMap
    /\ tasks = EmptyBag
    /\ booted = FALSE
    /\ hist = EmptyMap
    /\ served = 0
    /\ ev = NoEv

NextBoot ==
    \/ \E dbOk \in BOOLEAN : Startup(dbOk)
    \/ \E a \in DOMAIN adapters, ok \in BOOLEAN : LaunchDone(a, ok)

SpecBoot == InitBoot /\ [][NextBoot]_vars

----------------------------------------------------------------------------
(* Broadcasts: the server has been up for a while; every stored bot was
   created enabled, its launch succeeded (it is in the Map, polling) or
   failed, and users have subscribed to the bots *)

SubscriberRow(i, u) ==
    [bot_id |-> i, telegram_id |-> u, username |-> "", first_name |-> "", last_name |-> ""]

InitBroadcast ==
    /\ \E n \in 1..MaxBots : \E r \in 0..n, k \in 0..MaxUsers :
         /\ nextId = n + 1
         /\ bots = [i \in 1..n |-> NewRow(i, "t1", "alice", "", FALSE, TRUE, "")]
         /\ adapters = [i \in 1..r |-> [row |-> bots[i], state |-> "polling", awaited |-> FALSE]]
         /\ botInstances = [i \in 1..r |-> [bot |-> i, token |-> bots[i].token]]
         /\ bot_users = {SubscriberRow(i, u) : i \in 1..n, u \in 1..k}
    /\ broadcasts = <<>>
    /\ notifications = <<>>
    /\ tasks = EmptyBag
    /\ booted = TRUE
    /\ hist = EmptyMap
    /\ served = 0
    /\ ev = NoEv

BroadcastCredentials == Credentials \cup {<<"guess", "bob">>}

NextBroadcast ==
    \/ \E id \in DOMAIN bots, m \in Messages, c \in BroadcastCredentials :
         BroadcastSelect(id, m, c[1], c[2], TRUE)
    \/ \E t \in BagToSet(tasks) :
         \E users \in Orders(Subscribers(bot_users, t.id)) : BroadcastUsers(t, users, TRUE)
    \/ \E t \in BagToSet(tasks), ok \in BOOLEAN : BroadcastSend(t, ok)
    \/ \E t \in BagToSet(tasks), dbOk \in BOOLEAN : BroadcastInsert(t, dbOk)

SpecBroadcast == InitBroadcast /\ [][NextBroadcast]_vars

----------------------------------------------------------------------------
(* The handlers startBot attaches to a Telegraf object (lines 32-85); they
   close over botId and botRow, the row startBot was called with *)

\* lines 32, 67, 87: the handlers startBot attaches to the Telegraf object of
\* botRow - bot.start, bot.on('message') and bot.catch, none under a condition
Handlers(botRow) == {"start", "message", "catch"}

\* lines 38-44: the row the /start handler upserts (telegram_id is the
\* decimal string of the number tUser.id, written here as the number)
UserRow(botId, from) ==
    [bot_id |-> botId, telegram_id |-> from.id, username |-> from.username,
     first_name |-> from.first_name, last_name |-> from.last_name]

\* variant: a plain insert into a table without the unique constraint
Upsert_Insert(users, row) == users \cup {row}

\* upsert with onConflict (bot_id, telegram_id): the row replaces the one
\* stored for the pair, if any
Upsert(users, row) ==
    {u \in users : ~(u.bot_id = row.bot_id /\ u.telegram_id = row.telegram_id)} \cup {row}

\* lines 47-60 after the upsert, and 56-60 after the insert: what the
\* handler awaits next, if anything
\* variant: the reminder sent whether or not a channel is configured
AfterUpsert_Always(botRow) ==
    IF botRow.notify_new_user THEN "sub_notify" ELSE "sub_remind"

\* lines 46-47 and 55-56: what the handler does after the upsert
AfterUpsert(botRow) ==
    IF botRow.notify_new_user THEN "sub_notify"
    ELSE IF botRow.force_join_channel # "" THEN "sub_remind"
    ELSE "done"

AfterNotify(botRow) ==
    IF botRow.force_join_channel # "" THEN "sub_remind" ELSE "done"

SubTasks(tsk, old, kind, t) ==
    LET rest == IF old = NoTask THEN tsk ELSE BagDel(tsk, old)
    IN  IF kind = "done" THEN rest ELSE BagAdd(rest, [t EXCEPT !.kind = kind])

\* lines 32-47: a /start update reaches the handler of adapter a; the upsert
\* was awaited, its result is not looked at (the rows of bot_users
\* reference bots(id))
SubscribeStep(a, from, dbOk) ==
    /\ a \in DOMAIN adapters
    /\ Live(adapters[a])
    /\ "start" \in Handlers(adapters[a].row)
    /\ LET botRow == adapters[a].row
           took == dbOk /\ botRow.id \in DOMAIN bots
           t == [NoTask EXCEPT !.id = botRow.id, !.bot = a, !.row = botRow, !.from = from,
                            !.took = took]
       IN  /\ bot_users' = IF took THEN Upsert(bot_users, UserRow(botRow.id, from))
                           ELSE bot_users
           /\ tasks' = SubTasks(tasks, NoTask, AfterUpsert(botRow), t)
           /\ ev' = [NoEv EXCEPT !.op = "subscribe", !.id = botRow.id,
                                 !.failed = ~took]
    /\ UNCHANGED <<bots, nextId, broadcasts, notifications, botInstances, adapters,
                   booted, hist>>

\* a /start update, one of the MaxRequests events of a run
Subscribe(a, from, dbOk) ==
    /\ served < MaxRequests
    /\ served' = served + 1
    /\ SubscribeStep(a, from, dbOk)

\* lines 48-56: the insert into notifications was awaited
SubscribeNotify(t, dbOk) ==
    /\ t \in BagToSet(tasks)
    /\ t.kind = "sub_notify"
    /\ LET took == dbOk /\ t.id \in DOMAIN bots IN
       /\ notifications' =
              IF took THEN Append(notifications, [bot_id |-> t.id, telegram_id |-> t.from.id,
                                                  username |-> t.from.username])
              ELSE notifications
       /\ ev' = [NoEv EXCEPT !.op = "notify", !.id = t.id, !.failed = ~took]
    /\ tasks' = SubTasks(tasks, t, AfterNotify(t.row), t)
    /\ UNCHANGED <<bots, nextId, bot_users, broadcasts, botInstances, adapters,
                   booted, hist, served>>

\* lines 57-60: ctx.reply with the reminder returned or threw
SubscribeRemind(t, ok) ==
    /\ t \in BagToSet(tasks)
    /\ t.kind = "sub_remind"
    /\ tasks' = BagDel(tasks, t)
    /\ ev' = [NoEv EXCEPT !.op = "remind", !.id = t.id, !.failed = ~ok,
                          !.text = t.row.force_join_channel]
    /\ UNCHANGED <<bots, nextId, bot_users, broadcasts, notifications, botInstances,
                   adapters, booted, hist, served>>

\* variant: the handler deciding on the row startBot was called with
FreshRow_Snapshot(tbl, botRow, dbOk) == botRow

\* line 70-71: select('*').eq('id', botId).single(); NoRow for no row
FreshRow(tbl, botRow, dbOk) ==
    IF dbOk /\ botRow.id \in DOMAIN tbl THEN tbl[botRow.id] ELSE NoRow

\* variant: the reply awaited outside any try, its error ending the polling
AfterReply_Uncaught(ad, ok) == IF ok THEN ad ELSE [ad EXCEPT !.state = "stopped"]

\* lines 74-79: the adapter after ctx.reply returned or threw inside the
\* handler's inner try/catch, whose catch block is empty
AfterReply(ad, ok) == ad

\* lines 67-85: a message update reaches the handler of adapter a; the
\* select was awaited, then the reply (it returned, or threw and is ignored)
Message(a, msg, dbOk, ok) ==
    /\ a \in DOMAIN adapters
    /\ Live(adapters[a])
    /\ "message" \in Handlers(adapters[a].row)
    /\ served < MaxRequests
    /\ served' = served + 1
    /\ LET botRow == adapters[a].row
           fresh == FreshRow(bots, botRow, dbOk)
       IN  IF fresh # NoRow /\ fresh.reaction_enabled
           THEN /\ ev' = [NoEv EXCEPT !.op = "reaction", !.id = botRow.id,
                                      !.text = IF fresh.reaction_emoji = "" THEN DefaultEmoji
                                               ELSE fresh.reaction_emoji,
                                      !.reply_to = msg, !.failed = ~ok]
                /\ adapters' = [adapters EXCEPT ![a] = AfterReply(@, ok)]
           ELSE /\ ev' = [NoEv EXCEPT !.op = "message", !.id = botRow.id]
                /\ adapters' = adapters
    /\ UNCHANGED <<bots, nextId, bot_users, broadcasts, notifications, botInstances,
                   tasks, booted, hist>>

\* variant: the error handler dropping the bot from the Map
OnCatch_Delete(reg, botId) == Drop(reg, botId)

\* lines 87-89: the Map after the bot.catch callback ran - console.error and
\* nothing else
OnCatch(reg, botId) == reg

\* Telegraf hands an error of adapter a to the callback given to bot.catch
BotError(a) ==
    /\ a \in DOMAIN adapters
    /\ Live(adapters[a])
    /\ "catch" \in Handlers(adapters[a].row)
    /\ served < MaxRequests
    /\ served' = served + 1
    /\ botInstances' = OnCatch(botInstances, adapters[a].row.id)
    /\ ev' = [NoEv EXCEPT !.op = "bot_error", !.id = adapters[a].row.id]
    /\ UNCHANGED <<bots, nextId, bot_users, broadcasts, notifications, adapters, tasks,
                   booted, hist>>

\* variant: bot.on('message') registered ahead of bot.start
Dispatch_MessageFirst(text) == "message"

\* lines 32 and 67: Telegraf runs the middleware in the order of registration;
\* bot.start takes a message whose text is the /start command and its handler
\* never calls next(), any other message goes on to bot.on('message')
Dispatch(text) == IF text = "/start" THEN "start" ELSE "message"

\* one message update polled by adapter a and run through its middleware
Update(a, text, from, msg, dbOk, ok) ==
    IF Dispatch(text) = "start" THEN Subscribe(a, from, dbOk)
    ELSE Message(a, msg, dbOk, ok)

----------------------------------------------------------------------------
(* The routes that act on one bot, with every outcome of validation and
   authorization, the store failing on any write: bots running or not,
   with or without a subscriber; the requests come one after the other,
   each when the one before was answered and its start or stop has settled *)

Idle ==
    /\ tasks = EmptyBag
    /\ \A h \in DOMAIN adapters : adapters[h].state \notin {"launching", "stopping"}

InitApi ==
    /\ \E n \in 1..MaxBots : \E r \in 0..n, k \in {0, 1} :
         /\ nextId = n + 1
         /\ bots = [i \in 1..n |-> NewRow(i, "t1", "alice", "", FALSE, TRUE, "")]
         /\ adapters = [i \in 1..r |-> [row |-> bots[i], state |-> "polling", awaited |-> FALSE]]
         /\ botInstances = [i \in 1..r |-> [bot |-> i, token |-> bots[i].token]]
         /\ bot_users = {SubscriberRow(i, u) : i \in 1..n, u \in 1..k}
    /\ broadcasts = <<>>
    /\ notifications = <<>>
    /\ tasks = EmptyBag
    /\ booted = TRUE
    /\ hist = EmptyMap
    /\ served = 0
    /\ ev = NoEv

\* admin_password and owner as a request may carry them
AllCredentials == {ADMIN_PASSWORD, "guess"} \X Owners

\* the body of a settings request that names the id column itself
ApiPayloads == {[id |-> MaxBots + 1]}

Channels == {"chan"}

NextApi ==
    \/ Idle /\ \E id \in DOMAIN bots, enable \in BOOLEAN, c \in AllCredentials :
         ToggleSelect(id, enable, c[1], c[2], TRUE)
    \/ \E t \in BagToSet(tasks), dbOk \in BOOLEAN : ToggleUpdate(t, dbOk)
    \/ Idle /\ \E id \in DOMAIN bots, payload \in ApiPayloads \cup {<<>>},
          c \in AllCredentials :
         SettingsSelect(id, payload # <<>>, payload, c[1], c[2], TRUE)
    \/ Idle /\ \E id \in DOMAIN bots, channel \in Channels, c \in AllCredentials :
         ForceJoinSelect(id, channel, c[1], c[2], TRUE)
    \/ \E t \in BagToSet(tasks), dbOk \in BOOLEAN : UpdateDone(t, dbOk)
    \/ Idle /\ \E id \in DOMAIN bots, m \in {"", "hello"}, c \in AllCredentials :
         BroadcastSelect(id, m, c[1], c[2], TRUE)
    \/ \E t \in BagToSet(tasks) :
         \E users \in Orders(Subscribers(bot_users, t.id)), dbOk \in BOOLEAN :
             BroadcastUsers(t, users, dbOk)
    \/ \E t \in BagToSet(tasks), ok \in BOOLEAN : BroadcastSend(t, ok)
    \/ \E t \in BagToSet(tasks), dbOk \in BOOLEAN : BroadcastInsert(t, dbOk)
    \/ \E a \in DOMAIN adapters, ok \in BOOLEAN : LaunchDone(a, ok)
    \/ \E t \in BagToSet(tasks), threw \in BOOLEAN : StopDone(t, threw)

SpecApi == InitApi /\ [][NextApi]_vars

(* The same routes together with the admin's toggle_all *)

NextAdmin ==
    \/ NextApi
    \/ Idle /\ \E enable \in BOOLEAN, pw \in {ADMIN_PASSWORD, "guess"} :
         ToggleAllSelect(enable, pw, TRUE)
    \/ \E t \in BagToSet(tasks), dbOk \in BOOLEAN : ToggleAllUpdate(t, dbOk)

SpecAdmin == InitApi /\ [][NextAdmin]_vars

----------------------------------------------------------------------------
(* Telegram updates on a running bot: the bot was created with any
   notify_new_user, force_join_channel and reaction_enabled and is polling;
   users send /start and messages while settings requests change its row *)

InitEvents ==
    /\ \E notify \in BOOLEAN, fj \in {"", "chan"}, re \in BOOLEAN :
         /\ nextId = 2
         /\ bots = [i \in {1} |-> NewRow(i, "t1", "alice", fj, notify, re, "")]
         /\ adapters = [i \in {1} |-> [row |-> bots[i], state |-> "polling", awaited |-> FALSE]]
         /\ botInstances = [i \in {1} |-> [bot |-> i, token |-> bots[i].token]]
    /\ bot_users = {}
    /\ broadcasts = <<>>
    /\ notifications = <<>>
    /\ tasks = EmptyBag
    /\ booted = TRUE
    /\ hist = EmptyMap
    /\ served = 0
    /\ ev = NoEv

\* ctx.from: two users, one of whom changes username between two /start
Froms ==
    {[NoUser EXCEPT !.id = 1, !.username = "ann"],
     [NoUser EXCEPT !.id = 1, !.username = "anna"],
     [NoUser EXCEPT !.id = 2, !.username = "bo"]}

MsgIds == {1, 2}

\* ctx.message.text
Texts == {"/start", "hi"}

EventPayloads ==
    {[reaction_enabled |-> FALSE], [reaction_enabled |-> TRUE], [reaction_emoji |-> "fire"],
     [notify_new_user |-> TRUE]}

NextEvents ==
    \/ \E a \in DOMAIN adapters, text \in Texts, from \in Froms, msg \in MsgIds,
          dbOk \in BOOLEAN, ok \in BOOLEAN :
         Update(a, text, from, msg, dbOk, ok)
    \/ \E t \in BagToSet(tasks), dbOk \in BOOLEAN : SubscribeNotify(t, dbOk)
    \/ \E t \in BagToSet(tasks), ok \in BOOLEAN : SubscribeRemind(t, ok)
    \/ \E a \in DOMAIN adapters : BotError(a)
    \/ \E id \in DOMAIN bots, payload \in EventPayloads :
         SettingsSelect(id, TRUE, payload, ADMIN_PASSWORD, "bob", TRUE)
    \/ \E t \in BagToSet(tasks) : UpdateDone(t, TRUE)

SpecEvents == InitEvents /\ [][NextEvents]_vars

----------------------------------------------------------------------------
(* The reminder over an unending stream of /start updates: one running bot,
   launched with or without a channel; a bounded number of force-join
   updates replace or clear the stored channel, /start updates keep arriving,
   each when the handler of the one before has finished *)

InitRemind ==
    /\ \E fj \in {"", "chan"} :
         /\ nextId = 2
         /\ bots = [i \in {1} |-> NewRow(i, "t1", "alice", fj, FALSE, TRUE, "")]
         /\ adapters = [i \in {1} |-> [row |-> bots[i], state |-> "polling", awaited |-> FALSE]]
         /\ botInstances = [i \in {1} |-> [bot |-> i, token |-> bots[i].token]]
    /\ bot_users = {}
    /\ broadcasts = <<>>
    /\ notifications = <<>>
    /\ tasks = EmptyBag
    /\ booted = TRUE
    /\ hist = EmptyMap
    /\ served = 0
    /\ ev = NoEv

\* req.body.channel of the force-join route
NewChannels == {"", "chan2"}

\* the next /start update of the stream
SubscribeNext(a, from) ==
    /\ \A t \in BagToSet(tasks) : t.kind # "sub_remind"
    /\ SubscribeStep(a, from, TRUE)
    /\ UNCHANGED served

Reminding == \E t \in BagToSet(tasks), ok \in BOOLEAN : SubscribeRemind(t, ok)

Updating == \E t \in BagToSet(tasks) : UpdateDone(t, TRUE)

Arriving == \E a \in DOMAIN adapters, from \in Froms : SubscribeNext(a, from)

NextRemind ==
    \/ Arriving
    \/ Reminding
    \/ \E id \in DOMAIN bots, channel \in NewChannels :
         ForceJoinSelect(id, channel, ADMIN_PASSWORD, "alice", TRUE)
    \/ Updating

\* the event loop runs every continuation that is ready, and users keep
\* sending /start
SpecRemind ==
    /\ InitRemind /\ [][NextRemind]_vars
    /\ WF_vars(Arriving) /\ WF_vars(Reminding) /\ WF_vars(Updating)

----------------------------------------------------------------------------
(* A bot's token replaced through the settings route while the bot runs or
   not, with toggles, launches and stops in any interleaving *)

InitToken ==
    /\ \E n \in 1..MaxBots : \E r \in 0..n :
         /\ nextId = n + 1
         /\ bots = [i \in 1..n |-> NewRow(i, "t1", "alice", "", FALSE, TRUE, "")]
         /\ adapters = [i \in 1..r |-> [row |-> bots[i], state |-> "polling", awaited |-> FALSE]]
         /\ botInstances = [i \in 1..r |-> [bot |-> i, token |-> bots[i].token]]
    /\ bot_users = {}
    /\ broadcasts = <<>>
    /\ notifications = <<>>
    /\ tasks = EmptyBag
    /\ booted = TRUE
    /\ hist = EmptyMap
    /\ served = 0
    /\ ev = NoEv

\* bodies of a settings request that name the token column
TokenPayloads == {[token |-> "t2"], [token |-> ""]}

NextToken ==
    \/ \E id \in DOMAIN bots, payload \in TokenPayloads :
         SettingsSelect(id, TRUE, payload, ADMIN_PASSWORD, "alice", TRUE)
    \/ \E t \in BagToSet(tasks), dbOk \in BOOLEAN : UpdateDone(t, dbOk)
    \/ \E id \in DOMAIN bots, enable \in BOOLEAN :
         ToggleSelect(id, enable, ADMIN_PASSWORD, "alice", TRUE)
    \/ \E t \in BagToSet(tasks) : ToggleUpdate(t, TRUE)
    \/ \E a \in DOMAIN adapters, ok \in BOOLEAN : LaunchDone(a, ok)
    \/ \E t \in BagToSet(tasks), threw \in BOOLEAN : StopDone(t, threw)

SpecToken == InitToken /\ [][NextToken]_vars

----------------------------------------------------------------------------
(* Two bots side by side: each is enabled and polling, or disabled and not
   running; toggle requests start and stop them, launches and stops succeed
   or fail *)

InitPair ==
    /\ \E run \in [{1, 2} -> BOOLEAN] :
         LET R == {i \in {1, 2} : run[i]} IN
         /\ nextId = 3
         /\ bots = [i \in {1, 2} |->
                      [NewRow(i, "t1", "alice", "", FALSE, TRUE, "") EXCEPT !.enabled = run[i]]]
         /\ adapters = [i \in R |-> [row |-> bots[i], state |-> "polling", awaited |-> FALSE]]
         /\ botInstances = [i \in R |-> [bot |-> i, token |-> bots[i].token]]
    /\ bot_users = {}
    /\ broadcasts = <<>>
    /\ notifications = <<>>
    /\ tasks = EmptyBag
    /\ booted = TRUE
    /\ hist = EmptyMap
    /\ served = 0
    /\ ev = NoEv

NextPair ==
    \/ \E id \in DOMAIN bots, enable \in BOOLEAN :
         ToggleSelect(id, enable, "guess", "alice", TRUE)
    \/ \E t \in BagToSet(tasks) : ToggleUpdate(t, TRUE)
    \/ \E a \in DOMAIN adapters, ok \in BOOLEAN : LaunchDone(a, ok)
    \/ \E t \in BagToSet(tasks), threw \in BOOLEAN : StopDone(t, threw)

SpecPair == InitPair /\ [][NextPair]_vars

----------------------------------------------------------------------------
(* Properties of the lifecycle *)

AdaptersOf(i) == {h \in DOMAIN adapters : adapters[h].row.id = i}

LiveOf(i) == {h \in AdaptersOf(i) : Live(adapters[h])}

\* nothing of bot i is in flight: no launch, no stop, no toggle
Quiescent(i) ==
    /\ \A h \in AdaptersOf(i) : adapters[h].state \notin {"launching", "stopping"}
    /\ \A t \in BagToSet(tasks) : t.id # i

\* C1: for every bot id there is never more than one adapter that was
\* launched and not stopped, whatever the interleaving of startBot calls.
C1_AtMostOneLiveAdapter ==
    \A i \in DOMAIN bots : Cardinality(LiveOf(i)) <= 1

\* C2: a stop request followed by a start request for a bot (launch
\* succeeding) ends, once nothing is in flight, with exactly one registered
\* running instance of that bot.
C2_StopThenStartYieldsOne ==
    \A i \in DOMAIN bots :
        (HistOf(hist, i) = "stop_start" /\ Quiescent(i))
            => (i \in DOMAIN botInstances /\ Cardinality(LiveOf(i)) = 1)

\* C3: once a toggle with enable=false was answered with success, a lookup
\* of that bot id in the Map finds no instance.
C3_DisabledToggleMeansNoInstance ==
    (ev.op = "toggle" /\ ev.status = 200 /\ ~ev.enable) => ev.id \notin DOMAIN botInstances

\* C4: startBot called for an id that has an entry in the Map launches no
\* adapter and leaves the Map as it was (the toggle route and the bootstrap
\* loop are its callers here).
C4_StartBotOnRegisteredIsNoOp ==
    [][ /\ \A t \in BagToSet(tasks) :
             (ToggleUpdate(t, TRUE) /\ t.enable /\ t.id \in DOMAIN botInstances)
                 => (botInstances' = botInstances /\ adapters' = adapters)
        /\ Startup(TRUE)
             => /\ botInstances' = botInstances
                /\ \A h \in DOMAIN adapters : h \in DOMAIN adapters' /\ adapters'[h] = adapters[h]
                /\ \A h \in DOMAIN adapters' \ DOMAIN adapters :
                       adapters'[h].row.id \notin DOMAIN botInstances
      ]_vars

C4_Witness ==
    /\ ev.op = "toggle" /\ ev.status = 200 /\ ev.enable
    /\ ev.id \in DOMAIN botInstances
    /\ \A h \in AdaptersOf(ev.id) : adapters[h].state # "launching"

\* C5: a failed launch inserts nothing into the Map and leaves the stored
\* rows (the enabled flag) alone; nothing retries it: an adapter starts
\* launching only in a step that calls startBot for a start request, and an
\* entry appears only when a launch succeeds.
C5_LaunchFailureRegistersNothing ==
    [][ /\ \A a \in DOMAIN adapters :
             LaunchDone(a, FALSE)
                 => /\ botInstances' = botInstances
                    /\ bots' = bots
                    /\ tasks' = tasks
                    /\ a \notin DOMAIN adapters'
                    /\ \A h \in DOMAIN adapters' : h \in DOMAIN adapters
        /\ \A h \in DOMAIN adapters' :
             (adapters'[h].state = "launching"
                 /\ (h \notin DOMAIN adapters \/ adapters[h] # adapters'[h]))
                 => (ev'.op \in {"startup", "create_started"} \/ (ev'.op = "toggle" /\ ev'.enable))
        /\ \A i \in DOMAIN botInstances' :
             (i \notin DOMAIN botInstances \/ botInstances[i] # botInstances'[i])
                 => (ev'.op \in {"launch", "create"} /\ ~ev'.failed /\ ev'.id = i)
      ]_vars

C5_Witness ==
    /\ ev.op \in {"launch", "create"} /\ ev.failed
    /\ ev.id \in DOMAIN bots /\ bots[ev.id].enabled
    /\ ev.id \notin DOMAIN botInstances

\* C6: a create request whose adapter launch failed is not answered with
\* success.
C6_LaunchFailureSurfaced ==
    (ev.op = "create" /\ ev.failed) => ev.status # 200

\* C7: stopBot on an id without entry changes nothing; otherwise, when the
\* adapter's stop() has returned or thrown, the id has no entry in the Map.
C7_StopRemovesEntry ==
    [][ /\ \A t \in BagToSet(tasks), threw \in BOOLEAN :
             StopDone(t, threw) => t.id \notin DOMAIN botInstances'
        /\ \A t \in BagToSet(tasks) :
             (ToggleUpdate(t, TRUE) /\ ~t.enable /\ t.id \notin DOMAIN botInstances)
                 => (botInstances' = botInstances /\ adapters' = adapters
                       /\ tasks' = BagDel(tasks, t))
      ]_vars

C7_Witness ==
    ev.op = "stop" /\ ev.failed /\ ev.id \notin DOMAIN botInstances

----------------------------------------------------------------------------
(* Properties of the bootstrap *)

\* C8: once loadAndStartEnabledBots has run over stored rows with mixed
\* enabled flags, the Map holds entries only for rows with enabled = true,
\* also when every launch has completed; a row with enabled = false has no
\* entry and no adapter, and no stop was issued for any bot.
C8_BootStartsOnlyEnabled ==
    booted =>
        /\ \A i \in DOMAIN botInstances : i \in DOMAIN bots /\ bots[i].enabled
        /\ \A i \in DOMAIN bots :
             ~bots[i].enabled => (i \notin DOMAIN botInstances /\ AdaptersOf(i) = {})
        /\ \A h \in DOMAIN adapters :
             adapters[h].state \notin {"stopping", "stopped", "stop_failed"}
        /\ \A t \in BagToSet(tasks) : t.kind # "stop"
        /\ \A i \in DOMAIN hist : hist[i] \notin {"stop", "stop_start"}

C8_Witness ==
    /\ booted
    /\ \A h \in DOMAIN adapters : adapters[h].state # "launching"
    /\ \E i \in DOMAIN bots : bots[i].enabled /\ i \in DOMAIN botInstances
    /\ \E i \in DOMAIN bots : ~bots[i].enabled /\ bots[i].token # ""

----------------------------------------------------------------------------
(* Properties of the broadcast *)

\* C9: an authorized broadcast request (message given) for a bot without
\* entry in the Map is answered 400 "bot is not running"; it starts no
\* sending loop, so no subscriber is sent anything, and it appends no row
\* to broadcasts.
C9_BroadcastNeedsInstance ==
    [][ \A id \in DOMAIN bots, m \in Messages \ {""}, c \in BroadcastCredentials :
            ( /\ id \notin DOMAIN botInstances
              /\ Authorized(c[1], c[2], bots[id])
              /\ BroadcastSelect(id, m, c[1], c[2], TRUE) )
                => /\ ev'.op = "broadcast" /\ ev'.status = 400
                   /\ ev'.error = "bot is not running"
                   /\ tasks' = tasks
                   /\ broadcasts' = broadcasts
      ]_vars

C9_Witness ==
    /\ ev.op = "broadcast" /\ ev.status = 400 /\ ev.error = "bot is not running"
    /\ ev.id \in DOMAIN bots /\ ev.id \notin DOMAIN botInstances
    /\ Subscribers(bot_users, ev.id) # {}
    /\ broadcasts = <<>> /\ tasks = EmptyBag

\* C10: a broadcast on a running bot, whatever its subscribers (none
\* included) and whichever sends fail: the loop takes the listed
\* subscribers one by one, each send moves on to the next subscriber and
\* counts in `sent` exactly when it did not throw; the answer is 200 with
\* attempted = the number of subscribers, every subscriber tried exactly
\* once, sent = attempted minus the sends that threw; the insert into
\* broadcasts is issued once, and when the store takes it exactly one row
\* (this bot, this message) is appended; nothing else appends a row.
C10_BroadcastCountsAndRecords ==
    [][ /\ \A t \in {x \in BagToSet(tasks) : x.kind = "bc_users"} :
             \A users \in Orders(Subscribers(bot_users, t.id)) :
                 BroadcastUsers(t, users, TRUE)
                     => /\ Len(users) = Cardinality(Subscribers(bot_users, t.id))
                        /\ {users[j] : j \in 1..Len(users)} = Subscribers(bot_users, t.id)
                        /\ \E n \in BagToSet(tasks') :
                             /\ n.users = users /\ n.todo = users /\ n.log = <<>>
                             /\ n.sent = 0 /\ n.fails = 0
                             /\ n.kind = IF users = <<>> THEN "bc_insert" ELSE "bc_send"
        /\ \A t \in {x \in BagToSet(tasks) : x.kind = "bc_send"}, ok \in BOOLEAN :
             BroadcastSend(t, ok)
                 => /\ broadcasts' = broadcasts
                    /\ \E n \in BagToSet(tasks') :
                         /\ n.id = t.id /\ n.users = t.users
                         /\ n.log = Append(t.log, Head(t.todo))
                         /\ n.todo = Tail(t.todo)
                         /\ n.sent = (IF ok THEN t.sent + 1 ELSE t.sent)
                         /\ n.fails = (IF ok THEN t.fails ELSE t.fails + 1)
                         /\ n.kind = IF n.todo = <<>> THEN "bc_insert" ELSE "bc_send"
        /\ \A t \in {x \in BagToSet(tasks) : x.kind = "bc_insert"}, dbOk \in BOOLEAN :
             BroadcastInsert(t, dbOk)
                 => /\ ev'.op = "broadcast" /\ ev'.status = 200
                    /\ ev'.attempted = Cardinality(Subscribers(bot_users, t.id))
                    /\ ev'.log = ev'.users
                    /\ {ev'.log[j] : j \in 1..Len(ev'.log)} = Subscribers(bot_users, t.id)
                    /\ ev'.sent = ev'.attempted - ev'.fails
                    /\ tasks' = BagDel(tasks, t)
                    /\ dbOk => broadcasts' =
                                  Append(broadcasts, [bot_id |-> t.id, message |-> t.message])
        /\ broadcasts' # broadcasts => ev'.op = "broadcast" /\ ev'.status = 200
      ]_vars

C10_Witness ==
    /\ ev.op = "broadcast" /\ ev.status = 200 /\ ~ev.failed
    /\ ev.attempted = 2 /\ ev.sent = 1 /\ ev.fails = 1
    /\ ev.log = ev.users
    /\ Len(broadcasts) = 1 /\ broadcasts[1].bot_id = ev.id

----------------------------------------------------------------------------
(* Properties of the routes *)

\* C11: a toggle, settings, force-join or broadcast request that names an
\* existing bot and passes validation is answered 403 exactly when the
\* admin password differs from ADMIN_PASSWORD and the owner differs from the
\* stored owner; otherwise the request goes on to its store operation (the
\* broadcast to its instance lookup).
C11_AccessIffAdminOrOwner ==
    [][ \A id \in DOMAIN bots, c \in AllCredentials :
          LET granted == c[1] = ADMIN_PASSWORD \/ c[2] = bots[id].owner IN
          /\ \A enable \in BOOLEAN :
               (ev'.op \in {"toggle", "toggle_update"}
                   /\ ToggleSelect(id, enable, c[1], c[2], TRUE))
                   => /\ ev'.status = 403 <=> ~granted
                      /\ granted => ev'.op = "toggle_update" /\ tasks' # tasks
          /\ \A payload \in ApiPayloads :
               (ev'.op \in {"settings", "settings_update"}
                   /\ SettingsSelect(id, TRUE, payload, c[1], c[2], TRUE))
                   => /\ ev'.status = 403 <=> ~granted
                      /\ granted => ev'.op = "settings_update" /\ tasks' # tasks
          /\ \A channel \in Channels :
               (ev'.op \in {"force_join", "force_join_update"}
                   /\ ForceJoinSelect(id, channel, c[1], c[2], TRUE))
                   => /\ ev'.status = 403 <=> ~granted
                      /\ granted => ev'.op = "force_join_update" /\ tasks' # tasks
          /\ (ev'.op \in {"broadcast", "broadcast_users"}
                   /\ BroadcastSelect(id, "hello", c[1], c[2], TRUE))
                   => /\ ev'.status = 403 <=> ~granted
                      /\ granted => \/ ev'.op = "broadcast_users" /\ tasks' # tasks
                                    \/ ev'.error = "bot is not running"
      ]_vars

C11_Witness ==
    /\ ev.op \in {"toggle", "settings", "force_join", "broadcast"}
    /\ ev.status = 403 /\ ev.error = "forbidden"
    /\ served > 0

\* C14: the id of a stored bot is unique and never changes: in every step
\* each row is stored under its own id, and every id that names a bot
\* before the step still names one after it (no route deletes a bot, so an
\* id that is gone was changed).
C14_IdUniqueAndImmutable ==
    [][ /\ \A i \in DOMAIN bots' : bots'[i].id = i
        /\ \A i \in DOMAIN bots : i \in DOMAIN bots'
      ]_vars

----------------------------------------------------------------------------
(* Properties of the handlers *)

C13_StoreFailureSurfaced ==
    (ev.op = "broadcast" /\ ev.failed) => ev.status # 200

\* C15: the message handler decides on the row as stored when the message is
\* handled, not on the row the bot was launched with: it replies exactly
\* when the stored reaction_enabled is true, with the stored reaction_emoji
\* (the default when that is empty), as a reply to the message received.
C15_ReactionUsesStoredRow ==
    [][ \A a \in DOMAIN adapters, msg \in MsgIds, ok \in BOOLEAN :
          (ev'.op \in {"reaction", "message"} /\ Message(a, msg, TRUE, ok))
              => LET id == adapters[a].row.id IN
                 id \in DOMAIN bots
                     => /\ ev'.op = "reaction" <=> bots[id].reaction_enabled
                        /\ ev'.op = "reaction"
                             => /\ ev'.text = IF bots[id].reaction_emoji = ""
                                              THEN DefaultEmoji
                                              ELSE bots[id].reaction_emoji
                                /\ ev'.reply_to = msg
                                /\ ev'.failed = ~ok
      ]_vars

C15_Witness ==
    /\ ev.op = "message" /\ ev.id \in DOMAIN bots
    /\ ~bots[ev.id].reaction_enabled
    /\ \E a \in DOMAIN adapters :
         adapters[a].row.id = ev.id /\ adapters[a].row.reaction_enabled /\ Live(adapters[a])

\* C16: when the launch of the adapter that startBot constructed for a row
\* succeeds, the Map holds for the row's id the entry with that adapter and
\* the token of the row passed to startBot (a Map has one entry per key),
\* and the adapter is polling.
C16_LaunchSuccessRegisters ==
    [][ \A a \in DOMAIN adapters :
          (ev'.op \in {"launch", "create"} /\ ~ev'.failed /\ LaunchDone(a, TRUE))
              => LET botRow == adapters[a].row IN
                 /\ botRow.id \in DOMAIN botInstances'
                 /\ botInstances'[botRow.id] = [bot |-> a, token |-> botRow.token]
                 /\ a \in DOMAIN adapters' /\ adapters'[a].state = "polling"
                 /\ \A i \in DOMAIN botInstances' \ {botRow.id} :
                        i \in DOMAIN botInstances /\ botInstances'[i] = botInstances[i]
      ]_vars

C16_Witness ==
    /\ ev.op = "launch" /\ ~ev.failed
    /\ ev.id \in DOMAIN botInstances
    /\ botInstances[ev.id].token = "t1"
    /\ adapters[botInstances[ev.id].bot].state = "polling"
    /\ Cardinality(AdaptersOf(ev.id)) = 1

\* C17: when no request is in flight and no launch or stop is pending,
\* every bot with an entry in the Map has enabled = true in the store.
C17_RegisteredMeansEnabled ==
    Idle => \A i \in DOMAIN botInstances : i \in DOMAIN bots /\ bots[i].enabled

\* C18: a step of startBot or stopBot for one bot id (the call itself, the
\* launch resolving or rejecting, the stop returning or throwing) neither
\* adds, removes nor replaces the Map entry of any other bot id.
C18_OtherEntriesUntouched ==
    [][ LET Same(j) == /\ j \in DOMAIN botInstances <=> j \in DOMAIN botInstances'
                       /\ j \in DOMAIN botInstances => botInstances'[j] = botInstances[j]
        IN
        /\ \A a \in DOMAIN adapters, ok \in BOOLEAN :
             (ev'.op = "launch" /\ LaunchDone(a, ok))
                 => \A j \in DOMAIN bots \ {adapters[a].row.id} : Same(j)
        /\ \A t \in {x \in BagToSet(tasks) : x.kind = "stop"}, threw \in BOOLEAN :
             StopDone(t, threw) => \A j \in DOMAIN bots \ {t.id} : Same(j)
        /\ \A t \in {x \in BagToSet(tasks) : x.kind = "toggle"} :
             ToggleUpdate(t, TRUE) => \A j \in DOMAIN bots \ {t.id} : Same(j)
      ]_vars

C18_Witness ==
    /\ ev.op \in {"stop", "launch"} /\ ev.failed
    /\ \E j \in DOMAIN botInstances :
         j # ev.id /\ adapters[botInstances[j].bot].state = "polling"

\* C19: a /start event for a bot issues the insert of one notification
\* (bot_id, telegram_id, username of the event) exactly when the bot's
\* stored notify_new_user is true; the store taking it, exactly that row is
\* appended, and nothing else appends to notifications.
C19_NotifiesIffSetting ==
    [][ /\ \A a \in DOMAIN adapters, from \in Froms :
             (ev'.op = "subscribe" /\ Subscribe(a, from, TRUE))
                 => LET id == adapters[a].row.id
                        issued == \E t \in BagToSet(tasks') :
                                     /\ t.kind = "sub_notify" /\ t.id = id /\ t.from = from
                                     /\ CopiesIn(t, tasks') > CopiesIn(t, tasks)
                    IN  id \in DOMAIN bots => (issued <=> bots[id].notify_new_user)
        /\ \A t \in {x \in BagToSet(tasks) : x.kind = "sub_notify"} :
             (SubscribeNotify(t, TRUE) /\ t.id \in DOMAIN bots)
                 => notifications' =
                        Append(notifications, [bot_id |-> t.id, telegram_id |-> t.from.id,
                                               username |-> t.from.username])
        /\ notifications' # notifications => ev'.op = "notify"
      ]_vars

\* C20: the reminder's ctx.reply returning or throwing ends the /start
\* handler the same way - the handler is gone, the adapter, the registry and
\* the tables are as they were, and the subscriber row the handler upserted
\* is in bot_users; a reminder is attempted only by a handler whose bot row
\* has a force_join_channel.
C20_ReminderFailureSwallowed ==
    [][ /\ \A t \in {x \in BagToSet(tasks) : x.kind = "sub_remind"}, ok \in BOOLEAN :
             (ev'.op = "remind" /\ SubscribeRemind(t, ok))
                 => /\ tasks' = BagDel(tasks, t)
                    /\ adapters' = adapters /\ botInstances' = botInstances
                    /\ bot_users' = bot_users /\ notifications' = notifications
                    /\ t.took => \E u \in bot_users' :
                                    /\ u.bot_id = t.id /\ u.telegram_id = t.from.id
        /\ ev'.op = "remind" => ev'.text # ""
        /\ \A t \in BagToSet(tasks') :
             t.kind = "sub_remind" => t.row.force_join_channel # ""
      ]_vars

C20_Witness ==
    /\ ev.op = "remind" /\ ev.failed /\ ev.text = "chan"
    /\ \E u \in bot_users : u.bot_id = ev.id

\* C21: only an instance whose startBot was given reaction_enabled = true
\* has the message handler: a reaction reply is sent only by an adapter
\* launched with reaction_enabled = true.
C21_ReactionHandlerOnlyWhenEnabled ==
    [][ \A a \in DOMAIN adapters, msg \in MsgIds, dbOk \in BOOLEAN, ok \in BOOLEAN :
          (ev'.op \in {"reaction", "message"} /\ Message(a, msg, dbOk, ok))
              => /\ "message" \in Handlers(adapters[a].row) => adapters[a].row.reaction_enabled
                 /\ ev'.op = "reaction" => adapters[a].row.reaction_enabled
      ]_vars

\* C22: a /start update runs the subscription handler and nothing else - no
\* reaction reply is sent for it; any other message update to a bot whose
\* stored row (read back from the store) has reaction_enabled gets one
\* reaction attempt, a reply to that very message.
C22_StartNeverReacts ==
    [][ \A a \in DOMAIN adapters, text \in Texts, from \in Froms, msg \in MsgIds,
           dbOk \in BOOLEAN, ok \in BOOLEAN :
          (ev'.op \in {"subscribe", "reaction", "message"}
             /\ Update(a, text, from, msg, dbOk, ok))
              => LET id == adapters[a].row.id IN
                 /\ text = "/start" => ev'.op = "subscribe"
                 /\ (text # "/start" /\ dbOk /\ id \in DOMAIN bots
                       /\ bots[id].reaction_enabled)
                        => /\ ev'.op = "reaction" /\ ev'.reply_to = msg
                           /\ tasks' = tasks /\ bot_users' = bot_users
      ]_vars

C22_Witness ==
    /\ ev.op = "subscribe"
    /\ ev.id \in DOMAIN bots /\ bots[ev.id].reaction_enabled
    /\ \E u \in bot_users : u.bot_id = ev.id

\* C23: a reaction reply that throws ends the message handler like one that
\* returns: nothing is left pending, the adapter keeps polling and stays in
\* botInstances; and the message after a failed reaction is handled as any
\* other - replied to with its own message id when the stored row read back
\* has reaction_enabled.
C23_ReactionFailureSwallowed ==
    [][ \A a \in DOMAIN adapters, msg \in MsgIds, dbOk \in BOOLEAN, ok \in BOOLEAN :
          (ev'.op \in {"reaction", "message"} /\ Message(a, msg, dbOk, ok))
              => LET id == adapters[a].row.id IN
                 /\ (ev'.op = "reaction" /\ ev'.failed)
                        => /\ a \in DOMAIN adapters' /\ adapters'[a] = adapters[a]
                           /\ Live(adapters'[a])
                           /\ "message" \in Handlers(adapters'[a].row)
                           /\ botInstances' = botInstances /\ tasks' = tasks
                 /\ (ev.op = "reaction" /\ ev.failed /\ dbOk /\ id \in DOMAIN bots
                       /\ bots[id].reaction_enabled)
                        => ev'.op = "reaction" /\ ev'.reply_to = msg /\ ev'.failed = ~ok
      ]_vars

C23_Witness ==
    /\ ev.op = "reaction" /\ ev.failed
    /\ served < MaxRequests
    /\ \E a \in DOMAIN adapters :
         /\ adapters[a].row.id = ev.id /\ adapters[a].state = "polling"
         /\ ev.id \in DOMAIN botInstances /\ botInstances[ev.id].bot = a

\* C24: an error handed to the bot.catch callback of a running instance
\* changes nothing: the Map has the same entries with the same adapters, the
\* adapter keeps polling, no handler is started or dropped and no table is
\* written.
C24_BotErrorOnlyLogged ==
    [][ \A a \in DOMAIN adapters :
          (ev'.op = "bot_error" /\ BotError(a))
              => /\ botInstances' = botInstances
                 /\ adapters' = adapters /\ Live(adapters'[a])
                 /\ tasks' = tasks
                 /\ <<bots, bot_users, broadcasts, notifications>>' =
                        <<bots, bot_users, broadcasts, notifications>>
      ]_vars

C24_Witness ==
    /\ ev.op = "bot_error"
    /\ ev.id \in DOMAIN botInstances
    /\ adapters[botInstances[ev.id].bot].state = "polling"
    /\ tasks # EmptyBag

\* C25: a settings update that replaces the stored token leaves the Map
\* entry and the adapters as they are; an adapter keeps the token it was
\* constructed with for as long as it exists and its Map entry carries that
\* token; an adapter started by an enable toggle is constructed with the
\* token the toggle route read from the store.
C25_NoTokenHotSwap ==
    [][ /\ \A t \in {x \in BagToSet(tasks) : x.kind = "settings"}, dbOk \in BOOLEAN :
             (ev'.op = "settings" /\ UpdateDone(t, dbOk))
                 => botInstances' = botInstances /\ adapters' = adapters
        /\ \A a \in DOMAIN adapters :
             (adapters[a].state \in {"launching", "polling", "stopping"}
                /\ a \in DOMAIN adapters')
                 => adapters'[a].row.token = adapters[a].row.token
        /\ \A id \in DOMAIN botInstances' :
             /\ botInstances'[id].bot \in DOMAIN adapters'
             /\ botInstances'[id].token = adapters'[botInstances'[id].bot].row.token
        /\ \A id \in DOMAIN bots :
             (ev'.op = "toggle_update"
                /\ ToggleSelect(id, TRUE, ADMIN_PASSWORD, "alice", TRUE))
                 => \A t \in BagToSet(tasks') :
                       CopiesIn(t, tasks') > CopiesIn(t, tasks) => t.row.token = bots[id].token
        /\ \A t \in {x \in BagToSet(tasks) : x.kind = "toggle" /\ x.enable} :
             (ev'.op = "toggle" /\ ToggleUpdate(t, TRUE))
                 => \A a \in DOMAIN adapters' \ DOMAIN adapters :
                       adapters'[a].row.token = t.row.token
      ]_vars

C25_Witness ==
    /\ ev.op = "settings" /\ ev.status = 200
    /\ ev.id \in DOMAIN botInstances /\ ev.id \in DOMAIN bots
    /\ bots[ev.id].token = "t2"
    /\ botInstances[ev.id].token = "t1"
    /\ adapters[botInstances[ev.id].bot].state = "polling"

\* C26: from some point on, every /start handled by the running bot goes by
\* the stored force_join_channel: a reminder sent names the stored channel,
\* and a reminder is on its way after a /start exactly when the stored
\* channel is set.
C26_ReminderEventuallyFresh ==
    <>[]( /\ ev.op = "remind"
               => ev.id \in DOMAIN bots /\ ev.text = bots[ev.id].force_join_channel
          /\ (ev.op = "subscribe" /\ ev.id \in DOMAIN bots)
               => ((\E t \in BagToSet(tasks) : t.kind = "sub_remind" /\ t.id = ev.id)
                     <=> bots[ev.id].force_join_channel # "") )

\* C27: a toggle, settings, force-join, broadcast or toggle_all request whose
\* admin password is not ADMIN_PASSWORD (and, for the routes on one bot,
\* whose owner is not the stored owner) is answered 403, and a step that
\* answers 403 changes no table and no Map entry, starts and stops no
\* adapter and leaves no handler running that could send a message.
C27_ForbiddenChangesNothing ==
    [][ /\ ev'.status = 403
             => /\ <<bots, nextId, bot_users, broadcasts, notifications>>' =
                       <<bots, nextId, bot_users, broadcasts, notifications>>
                /\ botInstances' = botInstances /\ adapters' = adapters
                /\ tasks' = tasks
        /\ \A enable \in BOOLEAN :
             (ev'.op \in {"toggle_all", "toggle_all_update"}
                /\ ToggleAllSelect(enable, "guess", TRUE)) => ev'.status = 403
        /\ \A id \in DOMAIN bots, c \in AllCredentials :
             (c[1] # ADMIN_PASSWORD /\ c[2] # bots[id].owner)
                 => /\ \A enable \in BOOLEAN :
                         (ev'.op \in {"toggle", "toggle_update"}
                            /\ ToggleSelect(id, enable, c[1], c[2], TRUE))
                             => ev'.status = 403
                    /\ \A payload \in ApiPayloads :
                         (ev'.op \in {"settings", "settings_update"}
                            /\ SettingsSelect(id, TRUE, payload, c[1], c[2], TRUE))
                             => ev'.status = 403
                    /\ \A channel \in Channels :
                         (ev'.op \in {"force_join", "force_join_update"}
                            /\ ForceJoinSelect(id, channel, c[1], c[2], TRUE))
                             => ev'.status = 403
                    /\ (ev'.op \in {"broadcast", "broadcast_users"}
                            /\ BroadcastSelect(id, "hello", c[1], c[2], TRUE))
                             => ev'.status = 403
      ]_vars

C27_Witness ==
    /\ ev.op = "toggle_all" /\ ev.status = 403
    /\ botInstances # EmptyMap
    /\ \E i \in DOMAIN bots : ~bots[i].enabled

\* C28: every row of bots and every entry of botInstances has a non-empty
\* token.
C28_TokensNonEmpty ==
    /\ \A id \in DOMAIN bots : bots[id].token # ""
    /\ \A id \in DOMAIN botInstances : botInstances[id].token # ""

====
